---- MODULE Spec2Model ----
(***************************************************************************)
(* Type-level set and object operators of src/mapped-types.ts, evaluated   *)
(* the way the TypeScript checker evaluates them.                          *)
(*                                                                         *)
(* Representation of types:                                                *)
(*   atom    a string naming a non-union, non-intersection type: a string  *)
(*           literal type ("1", "age"), a boolean literal type ("true",    *)
(*           "false"), a primitive ("string", "number") or an object type  *)
(*           ("() => void", "Function");                                   *)
(*   member  a non-empty set of atoms, the intersection of its atoms; a    *)
(*           singleton is the atom itself;                                 *)
(*   union   a set of members; the empty set is never; boolean is          *)
(*           {{"true"}, {"false"}};                                        *)
(*   object  a function from property keys to the union type of the        *)
(*           property (modifiers are not represented).                     *)
(***************************************************************************)
EXTENDS FiniteSets, Naturals, Sequences, TLC

\* ---- bounds of the checked universe ----
MaxMembers == 3
MaxKeys == 3

\* ---- atoms ----
StringLiterals == {"1", "2", "3", "4", "name", "age", "visible", "other"}
BooleanLiterals == {"true", "false"}
ObjectAtoms == {"() => void", "Function"}

\* the primitive domain an atom lives in ("object" for object types)
BaseOf(a) ==
  IF a \in StringLiterals \/ a = "string" THEN "string"
  ELSE IF a \in BooleanLiterals THEN "boolean"
  ELSE IF a = "number" THEN "number"
  ELSE "object"

IsUnit(a) == a \in StringLiterals \/ a \in BooleanLiterals

\* assignability between atoms: identity, a string literal to string,
\* a function type to the global Function interface
AtomAssignable(s, t) ==
  \/ s = t
  \/ s \in StringLiterals /\ t = "string"
  \/ s = "() => void" /\ t = "Function"

\* source member s (an intersection of atoms) is assignable to target member
\* t when every constituent of t is matched by some constituent of s
MemberAssignable(s, t) ==
  \A ta \in t : \E sa \in s : AtomAssignable(sa, ta)

\* `m extends B` for one member m of a distributed union and a target type B
Extends(m, B) == \E b \in B : MemberAssignable(m, b)

\* ---- the checker's union and intersection constructors ----
\* an intersection of atoms is never when two of them are disjoint
\* primitives or two different unit types
IsNeverMember(m) ==
  \E x \in m : \E y \in m :
    /\ x # y
    /\ BaseOf(x) # "object" /\ BaseOf(y) # "object"
    /\ \/ BaseOf(x) # BaseOf(y)
       \/ IsUnit(x) /\ IsUnit(y)

\* 'lit' & string is 'lit'
ReduceMember(m) ==
  IF "string" \in m /\ \E x \in m : x \in StringLiterals
  THEN m \ {"string"} ELSE m

\* literal reduction of a union: 'lit' | string is string
ReduceUnion(X) ==
  {m \in X : ~ (\E l \in StringLiterals : m = {l} /\ {"string"} \in X)}

\* A | B
UnionType(X, Y) == ReduceUnion(X \cup Y)

\* A & B, distributed over the members of both
IntersectionType(X, Y) ==
  ReduceUnion({ReduceMember(x \cup y) : <<x, y>> \in
                 {p \in X \X Y : ~ IsNeverMember(p[1] \cup p[2])}})

\* ---- src/mapped-types.ts, set operators ----
SetIntersectionSwapped(X, Y) == {m \in X : ~ Extends(m, Y)}

\* A extends B ? A : never, distributed over A
SetIntersection(X, Y) ==
  UNION {IF Extends(m, Y) THEN {m} ELSE {} : m \in X}

\* A extends B ? never : A, distributed over A
SetDifference(X, Y) ==
  UNION {IF Extends(m, Y) THEN {} ELSE {m} : m \in X}

\* built-in Extract, the same conditional type as SetIntersection
Extract(X, Y) == SetIntersection(X, Y)

SymmetricDifferenceOneSided(X, Y) == SetDifference(X, Y)

SymmetricDifference(X, Y) ==
  SetDifference(UnionType(X, Y), IntersectionType(X, Y))

\* ---- src/mapped-types.ts, object operators ----
\* keyof T: the union of the literal types of T's keys
KeyOf(X) == {{k} : k \in DOMAIN X}

\* built-in Pick<T, K>: { [P in K]: T[P] }
Pick(X, K) == [k \in {key \in DOMAIN X : {key} \in K} |-> X[k]]

\* X & Y for object types, as seen through keyof and indexed access:
\* a property of both has the intersection of the two property types
ObjectIntersection(X, Y) ==
  [k \in DOMAIN X \cup DOMAIN Y |->
     IF k \in DOMAIN X /\ k \in DOMAIN Y THEN IntersectionType(X[k], Y[k])
     ELSE IF k \in DOMAIN X THEN X[k] ELSE Y[k]]

\* Pick<T, Extract<keyof T, keyof U> & Extract<keyof U, keyof T>>
Intersection(X, Y) ==
  Pick(X, IntersectionType(Extract(KeyOf(X), KeyOf(Y)),
                           Extract(KeyOf(Y), KeyOf(X))))

\* Pick<T, SetDifference<keyof T, keyof U>>
Diff(X, Y) == Pick(X, SetDifference(KeyOf(X), KeyOf(Y)))

OverwriteAddsKeys(X, Y) ==
  LET I == ObjectIntersection(ObjectIntersection(Diff(X, Y), Intersection(Y, X)),
                              Diff(Y, X))
  IN  Pick(I, KeyOf(I))

\* I = Diff<T, U> & Intersection<U, T>;  Pick<I, keyof I>
Overwrite(X, Y) ==
  LET I == ObjectIntersection(Diff(X, Y), Intersection(Y, X))
  IN  Pick(I, KeyOf(I))

AssignKeepsFirst(X, Y) ==
  LET I == ObjectIntersection(ObjectIntersection(Diff(X, Y), Intersection(X, Y)),
                              Diff(Y, X))
  IN  Pick(I, KeyOf(I))

\* I = Diff<T, U> & Intersection<U, T> & Diff<U, T>;  Pick<I, keyof I>
Assign(X, Y) ==
  LET I == ObjectIntersection(ObjectIntersection(Diff(X, Y), Intersection(Y, X)),
                              Diff(Y, X))
  IN  Pick(I, KeyOf(I))

\* ---- the types the operators are applied to ----
UnionAtoms == {"1", "2", "3", "4", "string", "number", "() => void", "Function"}

\* unions as the checker holds them: at most MaxMembers members, literal-reduced
UnionTypes ==
  {X \in SUBSET {{a} : a \in UnionAtoms} :
     Cardinality(X) <= MaxMembers /\ ReduceUnion(X) = X}

PropertyKeys == {"name", "age", "visible", "other"}
StringType == {{"string"}}
NumberType == {{"number"}}
BooleanType == {{"true"}, {"false"}}
PropertyTypes == {StringType, NumberType, BooleanType}

ObjectTypes ==
  UNION {[K -> PropertyTypes] :
           K \in {S \in SUBSET PropertyKeys : Cardinality(S) <= MaxKeys}}

EmptyObject == [k \in {} |-> {}]

\* the documented example of Overwrite and Assign
Props == [k \in {"name", "age", "visible"} |->
            IF k = "name" THEN StringType
            ELSE IF k = "age" THEN NumberType ELSE BooleanType]
NewProps == [k \in {"age", "other"} |-> StringType]

\* ---- state: the type arguments and the evaluated aliases ----
VARIABLES A, B, T, U, setIntersection, setDifference, symmetricDifference,
          overwritten, assigned, evaluated

vars == <<A, B, T, U, setIntersection, setDifference, symmetricDifference,
          overwritten, assigned, evaluated>>

Unevaluated ==
  /\ setIntersection = {}
  /\ setDifference = {}
  /\ symmetricDifference = {}
  /\ overwritten = EmptyObject
  /\ assigned = EmptyObject
  /\ evaluated = {}

\* type arguments of the set operators
InitSets ==
  /\ A \in UnionTypes
  /\ B \in UnionTypes
  /\ T = EmptyObject
  /\ U = EmptyObject
  /\ Unevaluated

\* type arguments of the object operators
InitObjects ==
  /\ A = {}
  /\ B = {}
  /\ T \in ObjectTypes
  /\ U \in ObjectTypes
  /\ Unevaluated

EvalSetIntersection ==
  /\ "SetIntersection" \notin evaluated
  /\ setIntersection' = SetIntersection(A, B)
  /\ evaluated' = evaluated \cup {"SetIntersection"}
  /\ UNCHANGED <<A, B, T, U, setDifference, symmetricDifference,
                 overwritten, assigned>>

EvalSetDifference ==
  /\ "SetDifference" \notin evaluated
  /\ setDifference' = SetDifference(A, B)
  /\ evaluated' = evaluated \cup {"SetDifference"}
  /\ UNCHANGED <<A, B, T, U, setIntersection, symmetricDifference,
                 overwritten, assigned>>

EvalSymmetricDifference ==
  /\ "SymmetricDifference" \notin evaluated
  /\ symmetricDifference' = SymmetricDifference(A, B)
  /\ evaluated' = evaluated \cup {"SymmetricDifference"}
  /\ UNCHANGED <<A, B, T, U, setIntersection, setDifference,
                 overwritten, assigned>>

EvalOverwrite ==
  /\ "Overwrite" \notin evaluated
  /\ overwritten' = Overwrite(T, U)
  /\ evaluated' = evaluated \cup {"Overwrite"}
  /\ UNCHANGED <<A, B, T, U, setIntersection, setDifference,
                 symmetricDifference, assigned>>

EvalAssign ==
  /\ "Assign" \notin evaluated
  /\ assigned' = Assign(T, U)
  /\ evaluated' = evaluated \cup {"Assign"}
  /\ UNCHANGED <<A, B, T, U, setIntersection, setDifference,
                 symmetricDifference, overwritten>>

NextSets ==
  \/ EvalSetIntersection
  \/ EvalSetDifference
  \/ EvalSymmetricDifference

NextObjects ==
  \/ EvalOverwrite
  \/ EvalAssign

SpecSets == InitSets /\ [][NextSets]_vars
SpecObjects == InitObjects /\ [][NextObjects]_vars

\* ---- properties ----
\* C1: SetIntersection<A, B> is the union of the members of A assignable to B,
\* SetDifference<A, B> the union of the members of A not assignable to B; the
\* two are disjoint and together make up A.
SetIntersectionDifferencePartition ==
  /\ "SetIntersection" \in evaluated =>
       setIntersection = {m \in A : \E b \in B : MemberAssignable(m, b)}
  /\ "SetDifference" \in evaluated =>
       setDifference = {m \in A : \A b \in B : ~ MemberAssignable(m, b)}
  /\ {"SetIntersection", "SetDifference"} \subseteq evaluated =>
       /\ setIntersection \cap setDifference = {}
       /\ setIntersection \cup setDifference = A

\* '1'|'2'|'3' against '2'|'3'|'4' evaluated to '2'|'3' and '1'
SetExampleEvaluated ==
  /\ A = {{"1"}, {"2"}, {"3"}}
  /\ B = {{"2"}, {"3"}, {"4"}}
  /\ {"SetIntersection", "SetDifference"} \subseteq evaluated
  /\ setIntersection = {{"2"}, {"3"}}
  /\ setDifference = {{"1"}}

\* C2 as stated: SymmetricDifference<A, B> consists of exactly the members that
\* belong to one of A, B but not to both, and is symmetric in its arguments.
SymmetricDifferenceByMembership ==
  "SymmetricDifference" \in evaluated =>
    /\ symmetricDifference = ReduceUnion((A \ B) \cup (B \ A))
    /\ symmetricDifference = SymmetricDifference(B, A)

\* C2, amended: SymmetricDifference<A, B> consists of exactly the members of
\* A | B that are not assignable to both A and B, and is symmetric in its
\* arguments; '1'|'2'|'3' and '2'|'3'|'4' give '1'|'4'.
SymmetricDifferenceByAssignability ==
  "SymmetricDifference" \in evaluated =>
    /\ symmetricDifference =
         {m \in UnionType(A, B) : ~ (Extends(m, A) /\ Extends(m, B))}
    /\ symmetricDifference = SymmetricDifference(B, A)
    /\ (A = {{"1"}, {"2"}, {"3"}} /\ B = {{"2"}, {"3"}, {"4"}}) =>
         symmetricDifference = {{"1"}, {"4"}}

\* a function type against Function: the function type is assignable to both
\* arguments and is dropped although it is a member of the first only
SymmetricDifferenceOfRelatedMembers ==
  /\ A = {{"() => void"}, {"1"}}
  /\ B = {{"Function"}}
  /\ "SymmetricDifference" \in evaluated
  /\ symmetricDifference = {{"1"}, {"Function"}}

\* C3: Assign<T, U> has the keys of T and of U; every key of U has U's
\* property type, every key of T alone has T's property type.
AssignLikeObjectAssign ==
  "Assign" \in evaluated =>
    /\ DOMAIN assigned = DOMAIN T \cup DOMAIN U
    /\ \A k \in DOMAIN U : assigned[k] = U[k]
    /\ \A k \in DOMAIN T \ DOMAIN U : assigned[k] = T[k]

\* an Assign whose arguments share a key with different property types
AssignSharedKeyEvaluated ==
  /\ "Assign" \in evaluated
  /\ \E k \in DOMAIN T \cap DOMAIN U : T[k] # U[k] /\ assigned[k] = U[k]
  /\ DOMAIN T \ DOMAIN U # {}
  /\ DOMAIN U \ DOMAIN T # {}

\* C4: Assign<Props, NewProps> is
\* { name: string; age: number; visible: boolean; other: string }.
AssignDocumentedExample ==
  (T = Props /\ U = NewProps /\ "Assign" \in evaluated) =>
    assigned = [k \in {"name", "age", "visible", "other"} |->
                  IF k \in {"name", "other"} THEN StringType
                  ELSE IF k = "age" THEN NumberType ELSE BooleanType]

\* C5: Overwrite<T, U> has exactly the keys of T; a key of both has U's
\* property type, a key of T alone keeps T's, a key of U alone is not added.
OverwriteKeepsKeySet ==
  "Overwrite" \in evaluated =>
    /\ DOMAIN overwritten = DOMAIN T
    /\ \A k \in DOMAIN T \cap DOMAIN U : overwritten[k] = U[k]
    /\ \A k \in DOMAIN T \ DOMAIN U : overwritten[k] = T[k]
    /\ (T = Props /\ U = NewProps) =>
         overwritten = [k \in {"name", "age", "visible"} |->
                          IF k \in {"name", "age"} THEN StringType
                          ELSE BooleanType]

\* Props overwritten with NewProps: age is a string, other is absent
OverwriteExampleEvaluated ==
  /\ T = Props
  /\ U = NewProps
  /\ "Overwrite" \in evaluated
  /\ overwritten["age"] = StringType
  /\ "other" \notin DOMAIN overwritten

====
